---- MODULE Spec2Model ----
(***************************************************************************)
(* Tiled analysis orchestrator with catalog reconciliation.               *)
(*                                                                         *)
(* src/App.tsx (handleScan, handleFile, handleDiscard, handleClear) and    *)
(* src/components/AuditOverlay.tsx (analyzeUIScreen, calculateSafetyMetrics*)
(* clampCoordinates), src/utils.ts (toSeverity, the data types).           *)
(*                                                                         *)
(* JavaScript runs one task at a time, so the code between two awaits is   *)
(* one atomic step.  handleScan awaits in three places: the backend call   *)
(* (ai.models.generateContent), the retry backoff (wait) and the           *)
(* inter-tile cooldown (setTimeout).  Each action below is the code that   *)
(* runs from one of these awaits to the next.                              *)
(*                                                                         *)
(* Prices are integer cents (10.00 is 1000), so the threshold 0.01 is 1.   *)
(* Remapped coordinates are exact rationals [n, d].  Times are in ms.      *)
(***************************************************************************)
EXTENDS Integers, Sequences, FiniteSets, TLC

\* ------------------------------------------------------------------ bounds

\* Longest list of anchor observations in one backend response.
MaxBatch == 2
\* Longest list of findings in one backend response.
MaxFindings == 1
\* Tallest image of the tiling scenario: heights of one, two and three tiles.
MaxHeight == 3100
\* Longest list of findings given to the threat aggregator on its own.
MaxList == 3
\* Most digit groups in a numeral given to the price normalizer.
MaxGroups == 3

\* ------------------------------------------------------------------ values

\* A string field that is absent from a JavaScript object (undefined).
NoStr == "undefined"
\* A numeric field that is absent (undefined); every price of the model is >= 0.
NoNum == -1
\* viewportMeta, scanProgress: null.
Null == [null |-> TRUE]
\* image: null.
NoImage == 0

Safe == "DESIGN VERIFIED"
Caution == "MANIPULATIVE DESIGN"
Compromised == "CRITICAL DECEPTION"

High == "High"
Medium == "Medium"
Low == "Low"

\* Position of a status in the order Safe < Caution < Compromised.
Rank(s) == CASE s = Safe -> 0 [] s = Caution -> 1 [] s = Compromised -> 2

Min(S) == CHOOSE x \in S : \A y \in S : x <= y
MinOf(a, b) == IF a <= b THEN a ELSE b
Abs(x) == IF x < 0 THEN -x ELSE x

\* ------------------------------------------------------------------ strings

\* The characters of the strings the model uses (String.prototype.includes
\* is decided on them).
Chars(s) ==
  CASE s = "SWITCH" -> <<"S","W","I","T","C","H">>
    [] s = "BAIT" -> <<"B","A","I","T">>
    [] s = "SNEAK" -> <<"S","N","E","A","K">>
    [] s = "HIDDEN_FEE" -> <<"H","I","D","D","E","N","_","F","E","E">>
    [] s = "BAIT-AND-SWITCH" -> <<"B","A","I","T","-","A","N","D","-","S","W","I","T","C","H">>
    [] s = "SNEAK-IN" -> <<"S","N","E","A","K","-","I","N">>
    [] s = "SCARCITY" -> <<"S","C","A","R","C","I","T","Y">>
    [] s = "CONFIRMSHAMING" -> <<"C","O","N","F","I","R","M","S","H","A","M","I","N","G">>
    [] s = "HIDDEN FEES" -> <<"H","I","D","D","E","N"," ","F","E","E","S">>
    [] s = "Bait and Switch" -> <<"B","a","i","t"," ","a","n","d"," ","S","w","i","t","c","h">>
    [] s = "high" -> <<"h","i","g","h">>
    [] s = "low" -> <<"l","o","w">>
    [] s = "medium" -> <<"m","e","d","i","u","m">>
    [] s = "critical" -> <<"c","r","i","t","i","c","a","l">>

\* s.includes(sub)
Includes(s, sub) ==
  LET cs == Chars(s)
      cu == Chars(sub)
  IN \E k \in 0..(Len(cs) - Len(cu)) : SubSeq(cs, k + 1, k + Len(cu)) = cu

\* String(val || '').toLowerCase() for the severities a backend sends.
LowerCase(s) ==
  CASE s = "High" -> "high"
    [] s = "HIGH" -> "high"
    [] s = "Medium" -> "medium"
    [] s = "Low" -> "low"
    [] s = "Critical" -> "critical"

\* toSeverity
toSeverity(val) ==
  IF Includes(LowerCase(val), "high") THEN High
  ELSE IF Includes(LowerCase(val), "low") THEN Low
  ELSE Medium

\* name.trim().toLowerCase() for the names a backend sends.
TrimLower(name) ==
  CASE name = "Pro" -> "pro"
    [] name = " PRO " -> "pro"
    [] name = "Basic" -> "basic"

\* ------------------------------------------------------------------ threat aggregator

\* Sum of the severity weights of a list of findings.
RECURSIVE Score(_)
Score(scans) ==
  IF scans = <<>> THEN 0
  ELSE (IF Head(scans).severity = High THEN 10
        ELSE IF Head(scans).severity = Medium THEN 3
        ELSE 1) + Score(Tail(scans))

\* A faulty calculateSafetyMetrics: the financial-risk categories are not
\* looked at.
calculateSafetyMetrics_NoFinancialRisk(scans) ==
  LET score == Score(scans)
      hasBaitSwitch == \E k \in 1..Len(scans) :
                          \/ Includes(scans[k].pattern_type, "SWITCH")
                          \/ Includes(scans[k].pattern_type, "BAIT")
  IN [threat_count |-> Len(scans),
      status |-> IF score >= 15 \/ hasBaitSwitch THEN Compromised
                 ELSE IF score > 0 THEN Caution
                 ELSE Safe]

\* calculateSafetyMetrics(scans): threat_count and status (the advice string
\* is a function of the status and is left out).
calculateSafetyMetrics(scans) ==
  LET score == Score(scans)
      hasBaitSwitch == \E k \in 1..Len(scans) :
                          \/ Includes(scans[k].pattern_type, "SWITCH")
                          \/ Includes(scans[k].pattern_type, "BAIT")
      hasFinancialRisk == \E k \in 1..Len(scans) :
                          \/ Includes(scans[k].pattern_type, "SNEAK")
                          \/ Includes(scans[k].pattern_type, "HIDDEN_FEE")
  IN [threat_count |-> Len(scans),
      status |-> IF score >= 15 \/ hasBaitSwitch \/ hasFinancialRisk THEN Compromised
                 ELSE IF score > 0 THEN Caution
                 ELSE Safe]

\* ------------------------------------------------------------------ coordinates

ZeroBox == <<0, 0, 0, 0>>

\* Math.max(0, Math.min(1000, Math.round(Number(c) || 0))) on an integer c.
Clamp(c) == IF c < 0 THEN 0 ELSE IF c > 1000 THEN 1000 ELSE c

\* clampCoordinates(coords)
clampCoordinates(coords) ==
  IF Len(coords) < 4 THEN ZeroBox
  ELSE [k \in 1..Len(coords) |-> Clamp(coords[k])]

\* coordinates.every(c => c === 0)
AllZero(coords) == \A k \in 1..Len(coords) : coords[k] = 0

\* A faulty GlobalY: the offset of the tile is not added.
GlobalY_NoOffset(local, h, offsetY, fullHeight) ==
  [n |-> local * h, d |-> fullHeight]

\* (((local / 1000 * h) + offset) / H) * 1000, as the exact fraction n / d.
GlobalY(local, h, offsetY, fullHeight) ==
  [n |-> local * h + 1000 * offsetY, d |-> fullHeight]

\* A coordinate that passes through unchanged.
PassThrough(c) == [n |-> c, d |-> 1]

\* A faulty Remap: the two y components change places.
Remap_Flipped(coords, h, offsetY, fullHeight) ==
  << GlobalY(coords[3], h, offsetY, fullHeight), PassThrough(coords[2]),
     GlobalY(coords[1], h, offsetY, fullHeight), PassThrough(coords[4]) >>

\* [gy1, lxmin, gy2, lxmax]
Remap(coords, h, offsetY, fullHeight) ==
  << GlobalY(coords[1], h, offsetY, fullHeight), PassThrough(coords[2]),
     GlobalY(coords[3], h, offsetY, fullHeight), PassThrough(coords[4]) >>

\* ------------------------------------------------------------------ partitioner

maxTileHeight == 1536
overlap == 150
effectiveTileHeight == maxTileHeight - overlap

\* A faulty NumTiles: the quotient is rounded down.
NumTiles_Floor(fullHeight) ==
  IF fullHeight <= maxTileHeight THEN 1
  ELSE (fullHeight - overlap) \div effectiveTileHeight

\* Math.ceil((fullHeight - overlap) / effectiveTileHeight) for fullHeight > maxTileHeight
NumTiles(fullHeight) ==
  IF fullHeight <= maxTileHeight THEN 1
  ELSE ((fullHeight - overlap) + effectiveTileHeight - 1) \div effectiveTileHeight

\* A faulty OffsetY: the tiles are laid end to end, without the overlap.
OffsetY_NoOverlap(tile) == tile * maxTileHeight

\* offsetY = i * effectiveTileHeight
OffsetY(tile) == tile * effectiveTileHeight

\* A faulty TileHeight: every tile is as tall as the first can be.
TileHeight_Full(tile, fullHeight) == maxTileHeight

\* currentTileHeight = Math.min(maxTileHeight, fullHeight - offsetY)
TileHeight(tile, fullHeight) == MinOf(maxTileHeight, fullHeight - OffsetY(tile))

\* ------------------------------------------------------------------ price normalizer

\* A string of the price normalizer is the sequence of its characters.
DigitChars == {"0", "1", "2", "3", "4", "5", "6", "7", "8", "9"}
NumericSet == DigitChars \cup {",", "."}
CurrencySigns == {"$"}

\* The result of cleanPrice that is not a number.
NotANumber == "NaN"

\* s.lastIndexOf(c), counted from 1; 0 is "not found" (-1 in the code).
LastIndexOf(s, c) ==
  LET hits == {k \in 1..Len(s) : s[k] = c}
  IN IF hits = {} THEN 0 ELSE CHOOSE k \in hits : \A j \in hits : j <= k

\* s.replace(c, r) with a string pattern: the first occurrence only.
ReplaceFirst(s, c, r) ==
  LET hits == {k \in 1..Len(s) : s[k] = c}
  IN IF hits = {} THEN s
     ELSE SubSeq(s, 1, Min(hits) - 1) \o r \o SubSeq(s, Min(hits) + 1, Len(s))

\* s.replace(/c/g, ''): every occurrence.
RemoveAll(s, c) ==
  LET kept(x) == x # c
  IN SelectSeq(s, kept)

\* s.replace(/[^\d,.]/g, '')
NumericChars(s) ==
  LET numeric(x) == x \in NumericSet
  IN SelectSeq(s, numeric)

\* The longest prefix of s whose characters are all in S.
PrefixIn(s, S) ==
  LET stops == {k \in 1..Len(s) : s[k] \notin S}
  IN IF stops = {} THEN s ELSE SubSeq(s, 1, Min(stops) - 1)

\* val.trim().split(/\s+/)[0] for a string without leading blanks.
FirstWord(val) == PrefixIn(val, NumericSet \cup CurrencySigns)

\* What [\d,.]+\d matches at the start of s: the longest run of digits, commas
\* and dots cut back to its last digit, if that leaves two characters or more.
NumericRun(s) ==
  LET run == PrefixIn(s, NumericSet)
      ends == {k \in 2..Len(run) : run[k] \in DigitChars}
  IN IF ends = {} THEN <<>> ELSE SubSeq(run, 1, CHOOSE k \in ends : \A j \in ends : j <= k)

\* raw: the numeric part of the currency-anchored match, or of the first word.
\* (The strings of the model hold a currency sign at their start or nowhere.)
RawOf(val) ==
  IF val[1] \in CurrencySigns /\ NumericRun(Tail(val)) # <<>>
    THEN NumericRun(Tail(val))
    ELSE NumericChars(FirstWord(val))

\* cleaned: raw with its separators resolved.
CleanedOf(raw) ==
  LET lastComma == LastIndexOf(raw, ",")
      lastDot == LastIndexOf(raw, ".")
  IN IF lastComma # 0 /\ lastDot # 0
       THEN IF lastComma > lastDot
              THEN ReplaceFirst(RemoveAll(raw, "."), ",", <<".">>)
              ELSE RemoveAll(raw, ",")
     ELSE IF lastComma # 0
       THEN IF Len(raw) - lastComma = 2
              THEN ReplaceFirst(raw, ",", <<".">>)
              ELSE ReplaceFirst(raw, ",", <<>>)
     ELSE IF lastDot # 0
       THEN IF Len(raw) - lastDot = 2 THEN raw ELSE RemoveAll(raw, ".")
     ELSE raw

\* A digit string without its leading zeros.
RECURSIVE StripLeading(_)
StripLeading(digits) ==
  IF digits # <<>> /\ Head(digits) = "0" THEN StripLeading(Tail(digits)) ELSE digits

\* A digit string without its trailing zeros.
RECURSIVE StripTrailing(_)
StripTrailing(digits) ==
  IF digits # <<>> /\ digits[Len(digits)] = "0"
    THEN StripTrailing(SubSeq(digits, 1, Len(digits) - 1))
    ELSE digits

\* The number with the integer digits whole and the decimal digits frac.
Decimal(whole, frac) == [int |-> StripLeading(whole), frac |-> StripTrailing(frac)]

\* parseFloat(s) for a string of digits, commas and dots: the longest prefix
\* that is a decimal literal, as a number, or NaN when it holds no digit.
ParseFloat(s) ==
  LET whole == PrefixIn(s, DigitChars)
      rest == SubSeq(s, Len(whole) + 1, Len(s))
      frac == IF rest # <<>> /\ Head(rest) = "." THEN PrefixIn(Tail(rest), DigitChars)
              ELSE <<>>
  IN IF whole = <<>> /\ frac = <<>> THEN NotANumber ELSE Decimal(whole, frac)

\* s.includes(word)
Contains(s, word) ==
  \E k \in 0..(Len(s) - Len(word)) : SubSeq(s, k + 1, k + Len(word)) = word

\* cleanPrice(val), for a string without upper-case letters.
cleanPrice(val) ==
  IF val = <<>> \/ \A k \in 1..Len(val) : val[k] = " " THEN NotANumber
  ELSE IF Contains(val, <<"f", "r", "e", "e">>) \/ Contains(val, <<"g", "r", "a", "t", "i", "s">>)
    THEN Decimal(<<>>, <<>>)
  ELSE IF \A k \in 1..Len(RawOf(val)) : RawOf(val)[k] \notin DigitChars THEN NotANumber
  ELSE ParseFloat(CleanedOf(RawOf(val)))

\* ------------------------------------------------------------------ catalog reconciliation

\* The price threshold 0.01, in cents.
PriceEps == 1

\* Result of a findIndex whose callback threw (a.name is undefined).
Thrown == -1

\* A string is truthy when it is present and not empty.
Truthy(str) == str # NoStr /\ str # ""

\* mergedAnchors.findIndex(a => a.id === inAnchor.id); positions count from 1,
\* 0 is "not found" (-1 in the code).
IdIndex(anchors, id) ==
  LET hits == {k \in 1..Len(anchors) : anchors[k].id = id}
  IN IF hits = {} THEN 0 ELSE Min(hits)

\* mergedAnchors.findIndex(a => a.name.trim().toLowerCase() ===
\* inAnchor.name.trim().toLowerCase()): the callback runs on the anchors in
\* order up to the first hit, and a.name.trim() throws on an anchor that has
\* no name.
NameIndex(anchors, name) ==
  LET hits == {k \in 1..Len(anchors) :
                 anchors[k].name # NoStr /\ TrimLower(anchors[k].name) = TrimLower(name)}
      bad == {k \in 1..Len(anchors) : anchors[k].name = NoStr}
  IN IF bad # {} /\ (hits = {} \/ Min(bad) < Min(hits)) THEN Thrown
     ELSE IF hits = {} THEN 0
     ELSE Min(hits)

\* existingIdx of one incoming observation.
ExistingIdx(anchors, inAnchor) ==
  LET byId == IdIndex(anchors, inAnchor.id)
  IN IF byId = 0 /\ Truthy(inAnchor.name) THEN NameIndex(anchors, inAnchor.name)
     ELSE byId

\* A faulty OrigNumeric: the baseline is overwritten by every sighting.
OrigNumeric_Overwritten(existing, inAnchor) == inAnchor.numeric_price

\* existing.original_numeric_price ?? inAnchor.numeric_price
OrigNumeric(existing, inAnchor) ==
  IF existing.original_numeric_price # NoNum THEN existing.original_numeric_price
  ELSE inAnchor.numeric_price

\* x ?? 0
OrZero(x) == IF x = NoNum THEN 0 ELSE x

\* Math.abs((inAnchor.numeric_price ?? 0) - (origNumeric ?? 0))
PriceDiff(existing, inAnchor) ==
  Abs(OrZero(inAnchor.numeric_price) - OrZero(OrigNumeric(existing, inAnchor)))

\* A faulty IsViolation: the flag of the backend alone is trusted.
IsViolation_Trusting(existing, inAnchor) ==
  \/ PriceDiff(existing, inAnchor) > PriceEps
  \/ inAnchor.is_violation

\* (priceDiff > 0.01) || (inAnchor.is_violation && priceDiff > 0.01)
IsViolation(existing, inAnchor) ==
  \/ PriceDiff(existing, inAnchor) > PriceEps
  \/ (inAnchor.is_violation /\ PriceDiff(existing, inAnchor) > PriceEps)

\* A faulty MergedAnchor: the identifier of the observation replaces the
\* identifier of the anchor.
MergedAnchor_TakesId(existing, inAnchor) ==
  [inAnchor EXCEPT
     !.original_price = IF Truthy(existing.original_price) THEN existing.original_price
                        ELSE inAnchor.original_price,
     !.original_numeric_price = OrigNumeric(existing, inAnchor),
     !.is_violation = IsViolation(existing, inAnchor)]

\* The anchor written over a matched one.
MergedAnchor(existing, inAnchor) ==
  [inAnchor EXCEPT
     !.id = existing.id,
     !.original_price = IF Truthy(existing.original_price) THEN existing.original_price
                        ELSE inAnchor.original_price,
     !.original_numeric_price = OrigNumeric(existing, inAnchor),
     !.is_violation = IsViolation(existing, inAnchor)]

\* A faulty InsertedAnchor: the flag of the backend is kept.
InsertedAnchor_KeepsFlag(inAnchor) ==
  [inAnchor EXCEPT
     !.original_price = inAnchor.price,
     !.original_numeric_price = inAnchor.numeric_price]

\* The anchor pushed for an observation that matches nothing.
InsertedAnchor(inAnchor) ==
  [inAnchor EXCEPT
     !.original_price = inAnchor.price,
     !.original_numeric_price = inAnchor.numeric_price,
     !.is_violation = FALSE]

\* One round of incomingAnchors.forEach on mergedAnchors; ok = FALSE when the
\* round threw.
MergeOne(merged, inAnchor) ==
  IF ~merged.ok THEN merged
  ELSE LET existingIdx == ExistingIdx(merged.anchors, inAnchor)
       IN IF existingIdx = Thrown THEN [ok |-> FALSE, anchors |-> merged.anchors]
          ELSE IF existingIdx > 0
            THEN [ok |-> TRUE,
                  anchors |-> [merged.anchors EXCEPT
                                 ![existingIdx] = MergedAnchor(merged.anchors[existingIdx], inAnchor)]]
            ELSE [ok |-> TRUE, anchors |-> Append(merged.anchors, InsertedAnchor(inAnchor))]

\* incomingAnchors.forEach(...) over a copy of the previous catalog.
RECURSIVE MergeFrom(_, _)
MergeFrom(merged, incomingAnchors) ==
  IF incomingAnchors = <<>> THEN merged
  ELSE MergeFrom(MergeOne(merged, Head(incomingAnchors)), Tail(incomingAnchors))

MergeAnchors(previous, incomingAnchors) ==
  MergeFrom([ok |-> TRUE, anchors |-> previous], incomingAnchors)

\* ------------------------------------------------------------------ what the backend can send

B1 == <<100, 50, 200, 150>>
\* The box of a finding that fills its tile.
WholeTile == <<0, 0, 1000, 1000>>

\* An array of five numbers whose first four are zero.
LongBox == <<0, 0, 0, 0, 7>>

\* A box with components outside [0,1000].
BoxOut == <<-20, 0, 1200, 500>>

Observation(id, name, price, numeric, orig, orig_numeric, coords, violation, visible) ==
  [id |-> id, name |-> name, price |-> price, numeric_price |-> numeric,
   original_price |-> orig, original_numeric_price |-> orig_numeric,
   coordinates |-> coords, is_violation |-> violation, is_currently_visible |-> visible]

\* The observations that come in batches: one item at two prices, and a second
\* identifier under the first item's name in another spelling.
CoreObs ==
  { Observation("sku1", "Pro", "$10.00", 1000, NoStr, NoNum, B1, FALSE, TRUE),
    Observation("sku1", "Pro", "$12.00", 1200, NoStr, NoNum, B1, FALSE, TRUE),
    Observation("sku2", " PRO ", "$12.00", 1200, NoStr, NoNum, B1, TRUE, TRUE) }

\* The observations that come alone: a price one cent off that the backend
\* itself reports as a violation of an original price of 9.99, and a third
\* item that has no name, once without and once with its prices.
LoneObs ==
  { Observation("sku1", "Pro", "$10.01", 1001, "$9.99", 999, B1, TRUE, TRUE),
    Observation("sku3", NoStr, NoStr, NoNum, NoStr, NoNum, B1, FALSE, TRUE),
    Observation("sku3", NoStr, "$5.00", 500, NoStr, NoNum, B1, FALSE, TRUE) }

ObsSet == CoreObs \cup LoneObs

\* The observations of the matching scenario, all with a price: two items
\* without a name, a later sighting of the second that has a name, and a new
\* identifier under that name.
NamelessObs ==
  { Observation("sku3", NoStr, "$5.00", 500, NoStr, NoNum, B1, FALSE, TRUE),
    Observation("sku4", NoStr, "$10.00", 1000, NoStr, NoNum, B1, FALSE, TRUE),
    Observation("sku4", "Pro", "$10.00", 1000, NoStr, NoNum, B1, FALSE, TRUE),
    Observation("sku2", " PRO ", "$12.00", 1200, NoStr, NoNum, B1, FALSE, TRUE) }

\* The observations of the synthetic-finding scenario: sku1 at 10.00 and at
\* 12.00, on display or not, with a box, with the box of the whole tile and
\* with the all-zero box.
SynthObs ==
  { Observation("sku1", "Pro", NoStr, n, NoStr, NoNum, b, FALSE, v) :
      n \in {1000, 1200}, b \in {B1, WholeTile, ZeroBox}, v \in BOOLEAN }

\* The observations of the end-to-end scenario: sku1 at 10.00 and at 12.00.
ScenarioObs ==
  { o \in CoreObs : o.id = "sku1" }

RawScan(pattern_type, coords, severity) ==
  [pattern_type |-> pattern_type, coordinates |-> coords, severity |-> severity,
   truth_label |-> <<"label">>, action_fix |-> "fix"]

\* The findings of the model, as the backend sends them.
FindingSet ==
  { RawScan("SCARCITY", BoxOut, "HIGH"),
    RawScan("CONFIRMSHAMING", ZeroBox, "Critical"),
    RawScan("SNEAK-IN", B1, "Low") }

\* The sequences over S of length at most n.
RECURSIVE SeqsUpTo(_, _)
SeqsUpTo(S, n) ==
  IF n = 0 THEN {<<>>}
  ELSE LET shorter == SeqsUpTo(S, n - 1)
       IN shorter \cup {Append(q, x) : q \in shorter, x \in S}

\* The sequences over S of length at most n that list no element twice.
DistinctSeqsUpTo(S, n) ==
  {q \in SeqsUpTo(S, n) : \A i, j \in 1..Len(q) : i < j => q[i] # q[j]}

Parsed(anchors, scans) ==
  [kind |-> "parsed", scans |-> scans,
   thought_signature |-> [catalog_anchors |-> anchors, security_brief |-> "brief"]]

\* generateContent rejected (transport failure, rate limit).
Rejected == [kind |-> "rejected"]

\* The responses of the coordinate scenario: sku1 at 10.00 or at 12.00 in a box
\* that leaves [0, 1000], with a finding in such a box or in a box of two
\* components.
CoordResponses ==
  { Parsed(<<Observation("sku1", "Pro", "$10.00", n, NoStr, NoNum, BoxOut, FALSE, TRUE)>>,
           <<RawScan("SCARCITY", b, "HIGH")>>) :
      n \in {1000, 1200}, b \in {BoxOut, <<5, 5>>} }

\* The responses of the schema scenario: one with every required field of the
\* responseSchema, and one for each required field that it can lack.  (The
\* other scenarios leave reasoning_path out of the model.)
SchemaResponses ==
  LET sku == Observation("sku1", "Pro", "$10.00", 1000, NoStr, NoNum, B1, FALSE, TRUE)
      find == RawScan("SCARCITY", B1, "HIGH")
  IN { [kind |-> "parsed", scans |-> <<find>>,
        thought_signature |-> [reasoning_path |-> "path", security_brief |-> "brief",
                               catalog_anchors |-> <<sku>>]],
       [kind |-> "parsed",
        thought_signature |-> [reasoning_path |-> "path", security_brief |-> "brief",
                               catalog_anchors |-> <<sku>>]],
       [kind |-> "parsed", scans |-> <<find>>],
       [kind |-> "parsed", scans |-> <<find>>,
        thought_signature |-> [security_brief |-> "brief", catalog_anchors |-> <<sku>>]],
       [kind |-> "parsed", scans |-> <<find>>,
        thought_signature |-> [reasoning_path |-> "path", catalog_anchors |-> <<sku>>]],
       [kind |-> "parsed", scans |-> <<find>>,
        thought_signature |-> [reasoning_path |-> "path", security_brief |-> "brief"]] }

\* What one backend call can end with: observations without findings (a batch
\* lists an observation once), findings without observations, or a rejection.
Responses ==
  {Parsed(b, <<>>) : b \in DistinctSeqsUpTo(CoreObs, MaxBatch) \cup SeqsUpTo(LoneObs, 1)}
    \cup {Parsed(<<>>, f) : f \in SeqsUpTo(FindingSet, MaxFindings)}
    \cup {Rejected}

\* Heights of the images of the model: one tile and two tiles.
Heights == {1000, 2000}

\* The empty session signature ({} in the code: no anchors, no brief).
EmptySignature == [catalog_anchors |-> <<>>, security_brief |-> NoStr]

\* ------------------------------------------------------------------ analysis client, per response

maxRetries == 2
TILE_COOLDOWN == 5000
\* A faulty BackoffMs: every backoff lasts five seconds.
BackoffMs_Flat(retryCount) == 5000

\* wait(retryCount * 5000)
BackoffMs(retryCount) == retryCount * 5000

\* (parsed.scans || []).map(s => ({...s, coordinates: clampCoordinates(...),
\* severity: toSeverity(s.severity)}))
ClampedScans(rawScans) ==
  [k \in 1..Len(rawScans) |->
     [rawScans[k] EXCEPT !.coordinates = clampCoordinates(rawScans[k].coordinates),
                         !.severity = toSeverity(rawScans[k].severity)]]

\* An object has a property.
Has(object, property) == property \in DOMAIN object

\* { ...a, ...b }
Spread(a, b) ==
  [f \in DOMAIN a \cup DOMAIN b |-> IF f \in DOMAIN b THEN b[f] ELSE a[f]]

\* parsed.scans || []
ScansOf(parsed) == IF Has(parsed, "scans") THEN parsed.scans ELSE <<>>

\* parsed.thought_signature.catalog_anchors || []
IncomingAnchors(parsed) ==
  IF Has(parsed.thought_signature, "catalog_anchors")
    THEN parsed.thought_signature.catalog_anchors
    ELSE <<>>

\* The attempt throws inside the try block: the call rejected, the parsed
\* object has no thought_signature to read catalog_anchors from, or the merge
\* threw.
AttemptThrows(previous, resp) ==
  \/ resp.kind = "rejected"
  \/ /\ resp.kind = "parsed"
     /\ IF Has(resp, "thought_signature")
          THEN ~MergeAnchors(previous.catalog_anchors, IncomingAnchors(resp)).ok
          ELSE TRUE

\* filteredPrevious: what of the previous signature goes to the backend.
FilteredPrevious(previous) ==
  [catalog_anchors |-> previous.catalog_anchors,
   security_brief |-> IF Truthy(previous.security_brief) THEN previous.security_brief
                      ELSE "Session Start."]

\* A faulty DegradedResult: the failure is reported as a clean, empty session.
DegradedResult_Clean(previous) ==
  [viewport_meta |-> [threat_count |-> 0, status |-> Safe],
   scans |-> << >>,
   thought_signature |-> [catalog_anchors |-> << >>, security_brief |-> "Session Start."],
   error |-> "Neural Link Failure (Rate Limited or Busy)."]

\* The ScanResponse returned when the retries are exhausted.
DegradedResult(previous) ==
  [viewport_meta |-> [threat_count |-> 0, status |-> Caution],
   scans |-> << >>,
   thought_signature |-> FilteredPrevious(previous),
   error |-> "Neural Link Failure (Rate Limited or Busy)."]

\* The ScanResponse returned by a successful attempt.
ScanResponse(previous, resp) ==
  LET clampedScans == ClampedScans(ScansOf(resp))
      mergedAnchors == MergeAnchors(previous.catalog_anchors, IncomingAnchors(resp)).anchors
  IN [viewport_meta |-> calculateSafetyMetrics(clampedScans),
      scans |-> clampedScans,
      thought_signature |-> Spread(resp.thought_signature,
                                   [catalog_anchors |-> mergedAnchors])]

\* ------------------------------------------------------------------ orchestrator, per tile

SyntheticFix == "Suspicious price movement detected. Re-verify the total before confirming."

\* The finding pushed for a violated, visible, positioned anchor.
SyntheticScan(anchor, h, offsetY, fullHeight) ==
  [pattern_type |-> "BAIT-AND-SWITCH",
   coordinates |-> Remap(anchor.coordinates, h, offsetY, fullHeight),
   severity |-> High,
   truth_label |-> <<anchor.name, ": Price hiked since session start.">>,
   action_fix |-> SyntheticFix]

\* A faulty SyntheticScans: is_currently_visible is not tested.
SyntheticScans_Hidden(catalogAnchors, h, offsetY, fullHeight) ==
  LET flagged(a) == a.is_violation /\ ~AllZero(a.coordinates)
      hit == SelectSeq(catalogAnchors, flagged)
  IN [k \in 1..Len(hit) |-> SyntheticScan(hit[k], h, offsetY, fullHeight)]

\* A faulty SyntheticScans: the violation flag of the anchor is not tested.
SyntheticScans_Unflagged(catalogAnchors, h, offsetY, fullHeight) ==
  LET shown(a) == a.is_currently_visible /\ ~AllZero(a.coordinates)
      hit == SelectSeq(catalogAnchors, shown)
  IN [k \in 1..Len(hit) |-> SyntheticScan(hit[k], h, offsetY, fullHeight)]

\* catalogAnchors.forEach(...): the synthetic findings of a tile.
SyntheticScans(catalogAnchors, h, offsetY, fullHeight) ==
  LET flagged(a) == a.is_violation /\ a.is_currently_visible /\ ~AllZero(a.coordinates)
      hit == SelectSeq(catalogAnchors, flagged)
  IN [k \in 1..Len(hit) |-> SyntheticScan(hit[k], h, offsetY, fullHeight)]

\* result.scans.forEach(...): the backend findings of a tile, remapped, without
\* those whose box is all zeros.
RemappedScans(resultScans, h, offsetY, fullHeight) ==
  LET positioned(sc) == ~AllZero(sc.coordinates)
      kept == SelectSeq(resultScans, positioned)
  IN [k \in 1..Len(kept) |->
        [kept[k] EXCEPT !.coordinates = Remap(kept[k].coordinates, h, offsetY, fullHeight)]]

\* tileSpecificScans
TileSpecificScans(result, tileIdx, fullHeight) ==
  SyntheticScans(result.thought_signature.catalog_anchors,
                 TileHeight(tileIdx, fullHeight), OffsetY(tileIdx), fullHeight)
    \o RemappedScans(result.scans, TileHeight(tileIdx, fullHeight), OffsetY(tileIdx), fullHeight)

\* A faulty FoldStatus: the status of the last tile replaces the running one.
FoldStatus_LastTile(finalSt, tileStatus) == tileStatus

\* finalStatus after folding in one tile's viewport_meta.status.
FoldStatus(finalSt, tileStatus) ==
  IF tileStatus = Compromised THEN Compromised
  ELSE IF tileStatus = Caution /\ finalSt # Compromised THEN Caution
  ELSE finalSt

\* A faulty ErrorAfterCatch: the catch block tests err.name, which is "Error".
ErrorAfterCatch_ByName(message, err) ==
  IF "Error" # "AbortError" THEN "Audit Failure. System Overload." ELSE err

\* The error state after handleScan's catch block caught an error with this message.
ErrorAfterCatch(message, err) ==
  IF message # "AbortError" THEN "Audit Failure. System Overload." ELSE err

NoError == "null"

\* ------------------------------------------------------------------ state

VARIABLES
  image,                    \* App state: height of the loaded image, NoImage for null
  loading,                  \* App state
  scans,                    \* App state: the findings on display
  viewportMeta,             \* App state: Null or [threat_count, status]
  lastSignature,            \* App state: the session signature
  error,                    \* App state: NoError or the error string
  scanProgress,             \* App state: Null or [current, total]
  hasCompletedInitialScan,  \* App state
  isScanningRef,            \* ref
  abortControllerRef,       \* ref: TRUE once a run has created its controller
  aborted,                  \* signal.aborted of the controller in abortControllerRef
  pc,                       \* where the run of handleScan waits: idle, calling, backoff, cooldown
  tile,                     \* handleScan: i
  numTiles,                 \* handleScan: numTiles
  fullHeight,               \* handleScan: fullHeight
  loopSignature,            \* handleScan: loopSignature
  currentTotalScans,        \* handleScan: currentTotalScans
  finalStatus,              \* handleScan: finalStatus
  retryCount,               \* analyzeUIScreen: retryCount
  timer,                    \* ms of the pending setTimeout, 0 when none
  calls,                    \* history: the backend calls issued for the current tile
  lastEmitted,              \* history: the Viewport Meta this run emitted last, or Null
  runState,                 \* history: none, running, done, halted, or how the run was cancelled
  scenario,                 \* which session is modelled: any, e2e, tiles, poll
  complete,                 \* imageRef.current is there and imageRef.current.complete
  poll,                     \* Null, or the closure of the handleScan that setTimeout will call
  other,                    \* Null, or a second run of handleScan that is in flight
  current,                  \* whose controller abortControllerRef holds: focus, other, none
  arg,                      \* Null, or the arguments of the function a scenario applies
  ret                       \* Null, or what that function returned

vars ==
  << image, loading, scans, viewportMeta, lastSignature, error, scanProgress,
     hasCompletedInitialScan, isScanningRef, abortControllerRef, aborted, pc, tile,
     numTiles, fullHeight, loopSignature, currentTotalScans, finalStatus, retryCount,
     timer, calls, lastEmitted, runState, scenario, complete, poll, other, current,
     arg, ret >>

\* What a run of handleScan does not touch.
outside == << complete, poll, other, current, arg, ret >>

\* The function call of the scenarios that apply one function of the code.
call == << arg, ret >>

locals ==
  << tile, numTiles, fullHeight, loopSignature, currentTotalScans, finalStatus, retryCount >>

\* What the backend of a scenario returns for a tile: anything in Responses; in
\* the tiling scenario, nothing to report; in the polling scenario, nothing to
\* report or a rejection; in the span scenario, one finding whose box is the
\* whole tile; in the matching scenario, one of NamelessObs; in the
\* schema scenario, one of SchemaResponses; in the coordinate scenario, one of
\* CoordResponses or a rejection; in the synthetic-finding scenario, one of
\* SynthObs with or without a finding of the backend's own, whose box is
\* ordinary, all zeros or LongBox, or a rejection; in the carry-over scenario, sku1 at 10.00
\* or at 12.00 on the first tile and no item and no finding on every later
\* tile, or a rejection; in the
\* end-to-end scenario, sku1 at 10.00 on the first tile and sku1 at 12.00 on
\* every later tile, with any findings.
AllowedResponses(scn, tileIdx) ==
  IF scn = "any" THEN Responses
  ELSE IF scn = "tiles" THEN {Parsed(<<>>, <<>>)}
  ELSE IF scn = "poll" THEN {Parsed(<<>>, <<>>), Rejected}
  ELSE IF scn = "spans" THEN {Parsed(<<>>, <<RawScan("SCARCITY", WholeTile, "Low")>>)}
  ELSE IF scn = "match" THEN {Parsed(<<o>>, <<>>) : o \in NamelessObs}
  ELSE IF scn = "schema" THEN SchemaResponses
  ELSE IF scn = "coords" THEN CoordResponses \cup {Rejected}
  ELSE IF scn = "carry"
    THEN IF tileIdx = 0 THEN {Parsed(<<o>>, <<>>) : o \in ScenarioObs} \cup {Rejected}
         ELSE {Parsed(<<>>, <<>>), Rejected}
  ELSE IF scn = "synth"
    THEN {Parsed(<<o>>, f) :
            o \in SynthObs,
            f \in {<<>>} \cup {<<RawScan("SCARCITY", b, "HIGH")>> : b \in {B1, ZeroBox, LongBox}}}
         \cup {Rejected}
  ELSE {Parsed(<<o>>, f) :
          o \in {x \in ScenarioObs : x.numeric_price = IF tileIdx = 0 THEN 1000 ELSE 1200},
          f \in SeqsUpTo(FindingSet, MaxFindings)}
         \cup {Rejected}

\* Whether the image is decoded by the time the user can act on it: it is,
\* except in the polling scenario, where the load event is a step of its own.
Decoded(scn) == scn # "poll"

\* The images of a scenario: any height, or two-tile images.
AllowedHeights(scn) ==
  IF scn \in {"any", "poll", "match", "schema", "coords"} THEN Heights ELSE {h \in Heights : NumTiles(h) = 2}

InitOn(scn, img) ==
  /\ image = img
  /\ loading = FALSE
  /\ scans = <<>>
  /\ viewportMeta = Null
  /\ lastSignature = EmptySignature
  /\ error = NoError
  /\ scanProgress = Null
  /\ hasCompletedInitialScan = FALSE
  /\ isScanningRef = FALSE
  /\ abortControllerRef = FALSE
  /\ aborted = FALSE
  /\ pc = "idle"
  /\ tile = 0
  /\ numTiles = 0
  /\ fullHeight = 0
  /\ loopSignature = EmptySignature
  /\ currentTotalScans = <<>>
  /\ finalStatus = Safe
  /\ retryCount = 0
  /\ timer = 0
  /\ calls = <<>>
  /\ lastEmitted = Null
  /\ runState = "none"
  /\ scenario = scn
  /\ complete = (img # NoImage)
  /\ poll = Null
  /\ other = Null
  /\ current = "focus"

\* No function is applied on its own.
NoCall == arg = Null /\ ret = Null

InitWith(scn) == InitOn(scn, NoImage) /\ NoCall

Init == InitWith("any")

\* ------------------------------------------------------------------ handlers of the user interface

\* if (abortControllerRef.current) abortControllerRef.current.abort()
AbortCurrent ==
  /\ aborted' = IF current = "focus" THEN (abortControllerRef \/ aborted) ELSE aborted
  /\ other' = IF current = "other" THEN [other EXCEPT !.aborted = TRUE] ELSE other

\* handleFile: reader.onload for an image of height h.
handleFile(h) ==
  /\ AbortCurrent
  /\ image' = h
  /\ scans' = <<>>
  /\ viewportMeta' = Null
  /\ error' = NoError
  /\ hasCompletedInitialScan' = FALSE
  /\ complete' = Decoded(scenario)
  /\ UNCHANGED << loading, lastSignature, scanProgress, isScanningRef, abortControllerRef,
                  pc, locals, timer, calls, lastEmitted, runState, scenario, poll, current, call >>

\* The body of handleDiscard.
DiscardBody ==
  /\ AbortCurrent
  /\ image' = NoImage
  /\ scans' = <<>>
  /\ viewportMeta' = Null
  /\ error' = NoError
  /\ scanProgress' = Null
  /\ isScanningRef' = FALSE
  /\ hasCompletedInitialScan' = FALSE
  /\ complete' = FALSE
  /\ UNCHANGED << loading, abortControllerRef, pc, locals, timer, calls,
                  lastEmitted, runState, scenario, poll, current, call >>

\* handleDiscard: its two buttons are rendered when image && !loading.
handleDiscard ==
  /\ image # NoImage
  /\ ~loading
  /\ DiscardBody
  /\ UNCHANGED lastSignature

\* handleClear ("New Session", always rendered).
handleClear ==
  /\ DiscardBody
  /\ lastSignature' = EmptySignature

\* ------------------------------------------------------------------ the run of handleScan

\* A faulty RunEnds: the run ends without its finally block.
RunEnds_NoFinally(how) ==
  /\ loading' = loading
  /\ scanProgress' = scanProgress
  /\ isScanningRef' = isScanningRef
  /\ pc' = "idle"
  /\ timer' = 0
  /\ runState' = how
  /\ tile' = 0
  /\ numTiles' = 0
  /\ fullHeight' = 0
  /\ loopSignature' = EmptySignature
  /\ currentTotalScans' = <<>>
  /\ finalStatus' = Safe
  /\ retryCount' = 0
  /\ calls' = <<>>
  /\ lastEmitted' = Null

\* The finally block, and the end of the run's local variables and history.
RunEnds(how) ==
  /\ loading' = FALSE
  /\ scanProgress' = Null
  /\ isScanningRef' = FALSE
  /\ pc' = "idle"
  /\ timer' = 0
  /\ runState' = how
  /\ tile' = 0
  /\ numTiles' = 0
  /\ fullHeight' = 0
  /\ loopSignature' = EmptySignature
  /\ currentTotalScans' = <<>>
  /\ finalStatus' = Safe
  /\ retryCount' = 0
  /\ calls' = <<>>
  /\ lastEmitted' = Null

\* throw new Error("AbortError") reaches the catch block of handleScan, thrown
\* by the loop of handleScan or by analyzeUIScreen before an attempt.
CancelledByLoop == "cancelled by the loop"
CancelledByClient == "cancelled before an attempt"

Cancelled(how) ==
  /\ error' = ErrorAfterCatch("AbortError", error)
  /\ RunEnds(how)

\* The run that is followed in pc, the locals and the history, as a record.
FocusedRun ==
  [aborted |-> aborted, pc |-> pc, tile |-> tile, numTiles |-> numTiles,
   fullHeight |-> fullHeight, loopSignature |-> loopSignature,
   currentTotalScans |-> currentTotalScans, finalStatus |-> finalStatus,
   retryCount |-> retryCount, timer |-> timer, calls |-> calls,
   lastEmitted |-> lastEmitted, runState |-> runState]

\* handleScan from the new AbortController to the first backend call, in a
\* closure whose lastSignature is signature.  A run that is in flight goes on
\* beside the new one; the model follows two runs at most.
StartRun(signature) ==
  /\ IF pc = "idle" THEN UNCHANGED other
     ELSE /\ other = Null
          /\ other' = FocusedRun
  /\ current' = "focus"
  /\ abortControllerRef' = TRUE
  /\ aborted' = FALSE
  /\ isScanningRef' = TRUE
  /\ loading' = TRUE
  /\ error' = NoError
  /\ scans' = <<>>
  /\ fullHeight' = image
  /\ numTiles' = NumTiles(image)
  /\ scanProgress' = [current |-> 1, total |-> NumTiles(image)]
  /\ loopSignature' = signature
  /\ currentTotalScans' = <<>>
  /\ finalStatus' = Safe
  /\ tile' = 0
  /\ retryCount' = 0
  /\ pc' = "calling"
  /\ timer' = 0
  /\ calls' = << [after |-> 0, outcome |-> "pending"] >>
  /\ lastEmitted' = Null
  /\ runState' = "running"
  /\ UNCHANGED << image, viewportMeta, lastSignature, hasCompletedInitialScan, scenario,
                  complete, call >>

\* handleScan called from a button, in the closure of the last render.  The
\* start button is rendered when !hasCompletedInitialScan, the re-attempt
\* button when error.  While the image is not complete, handleScan arms a timer
\* that calls this same closure again (one such timer at a time in the model).
handleScan ==
  /\ ~(loading \/ isScanningRef \/ image = NoImage)
  /\ ~hasCompletedInitialScan \/ error # NoError
  /\ IF complete
       THEN /\ StartRun(lastSignature)
            /\ UNCHANGED poll
       ELSE /\ poll = Null
            /\ poll' = [lastSignature |-> lastSignature]
            /\ UNCHANGED << image, loading, scans, viewportMeta, lastSignature, error,
                            scanProgress, hasCompletedInitialScan, isScanningRef,
                            abortControllerRef, aborted, pc, locals, timer, calls,
                            lastEmitted, runState, scenario, complete, other, current,
                            call >>

\* setTimeout(handleScan, 100) fires: handleScan runs in the closure that armed
\* the timer, where loading is false and image is set, whatever they are now.
\* isScanningRef and imageRef are refs and are read as they are now.  The step
\* that finds no complete image arms the timer again and changes nothing.
PollFires ==
  /\ poll # Null
  /\ IF isScanningRef
       THEN /\ poll' = Null
            /\ UNCHANGED << image, loading, scans, viewportMeta, lastSignature, error,
                            scanProgress, hasCompletedInitialScan, isScanningRef,
                            abortControllerRef, aborted, pc, locals, timer, calls,
                            lastEmitted, runState, scenario, complete, other, current,
                            call >>
       ELSE /\ image # NoImage
            /\ complete
            /\ StartRun(poll.lastSignature)
            /\ poll' = Null

\* The load event of the image on display.
ImageLoads ==
  /\ image # NoImage
  /\ ~complete
  /\ complete' = TRUE
  /\ UNCHANGED << image, loading, scans, viewportMeta, lastSignature, error, scanProgress,
                  hasCompletedInitialScan, isScanningRef, abortControllerRef, aborted, pc,
                  locals, timer, calls, lastEmitted, runState, scenario, poll, other, current,
                  call >>

\* The model turns to the other run in flight: the run it followed, if it has
\* not ended, becomes the other one.
Swap ==
  /\ other # Null
  /\ aborted' = other.aborted
  /\ pc' = other.pc
  /\ tile' = other.tile
  /\ numTiles' = other.numTiles
  /\ fullHeight' = other.fullHeight
  /\ loopSignature' = other.loopSignature
  /\ currentTotalScans' = other.currentTotalScans
  /\ finalStatus' = other.finalStatus
  /\ retryCount' = other.retryCount
  /\ timer' = other.timer
  /\ calls' = other.calls
  /\ lastEmitted' = other.lastEmitted
  /\ runState' = other.runState
  /\ IF pc = "idle"
       THEN /\ other' = Null
            /\ current' = IF current = "other" THEN "focus" ELSE "none"
       ELSE /\ other' = FocusedRun
            /\ current' = IF current = "other" THEN "focus"
                          ELSE IF current = "focus" THEN "other" ELSE "none"
  /\ UNCHANGED << image, loading, scans, viewportMeta, lastSignature, error, scanProgress,
                  hasCompletedInitialScan, isScanningRef, abortControllerRef, scenario,
                  complete, poll, call >>

\* A faulty Settle: the response is not awaited, the call stays in flight.
Settle_NotAwaited(outcome) == calls

\* The outcome of the last call of the tile is known.
Settle(outcome) == [calls EXCEPT ![Len(calls)].outcome = outcome]

\* The pending call settles with resp and the attempt throws.  catch (err):
\* retryCount < maxRetries, so back off and try again.
RetryAfterFailure(resp) ==
  /\ pc = "calling"
  /\ UNCHANGED outside
  /\ retryCount < maxRetries
  /\ AttemptThrows(loopSignature, resp)
  /\ retryCount' = retryCount + 1
  /\ timer' = BackoffMs(retryCount + 1)
  /\ pc' = "backoff"
  /\ calls' = Settle("failed")
  /\ UNCHANGED << image, loading, scans, viewportMeta, lastSignature, error, scanProgress,
                  hasCompletedInitialScan, isScanningRef, abortControllerRef, aborted,
                  tile, numTiles, fullHeight, loopSignature, currentTotalScans, finalStatus,
                  lastEmitted, runState, scenario >>

\* A faulty DegradeAfterFailure: handleScan sets the error and does not leave
\* the loop.
DegradeAfterFailure_Continues(resp) ==
  /\ pc = "calling"
  /\ UNCHANGED outside
  /\ retryCount >= maxRetries
  /\ AttemptThrows(loopSignature, resp)
  /\ error' = DegradedResult(loopSignature).error
  /\ IF tile + 1 >= numTiles
       THEN /\ hasCompletedInitialScan' = TRUE
            /\ RunEnds("halted")
            /\ UNCHANGED << image, scans, viewportMeta, lastSignature, abortControllerRef,
                            aborted, scenario >>
       ELSE /\ tile' = tile + 1
            /\ timer' = TILE_COOLDOWN
            /\ pc' = "cooldown"
            /\ calls' = Settle("failed")
            /\ UNCHANGED << image, loading, scans, viewportMeta, lastSignature, scanProgress,
                            hasCompletedInitialScan, isScanningRef, abortControllerRef,
                            aborted, numTiles, fullHeight, loopSignature, currentTotalScans,
                            finalStatus, retryCount, lastEmitted, runState, scenario >>

\* The pending call settles with resp and the attempt throws.  catch (err):
\* retries exhausted, the degraded result is returned; handleScan sets the
\* error, leaves the loop, and ends.
DegradeAfterFailure(resp) ==
  /\ pc = "calling"
  /\ UNCHANGED outside
  /\ retryCount >= maxRetries
  /\ AttemptThrows(loopSignature, resp)
  /\ error' = DegradedResult(loopSignature).error
  /\ hasCompletedInitialScan' = TRUE
  /\ RunEnds("halted")
  /\ UNCHANGED << image, scans, viewportMeta, lastSignature, abortControllerRef, aborted,
                  scenario >>

\* The call of analyzeUIScreen for the next attempt or tile, after a wait of
\* `after` ms: the signal is checked, then the backend is called.
AttemptStarts(after, history) ==
  IF aborted
    THEN Cancelled(CancelledByClient)
    ELSE /\ pc' = "calling"
         /\ timer' = 0
         /\ calls' = Append(history, [after |-> after, outcome |-> "pending"])

\* wait(retryCount * 5000) is over: the next round of the retry loop.
BackoffElapses ==
  /\ pc = "backoff"
  /\ UNCHANGED outside
  /\ AttemptStarts(timer, calls)
  /\ IF aborted
       THEN UNCHANGED << image, scans, viewportMeta, lastSignature, hasCompletedInitialScan,
                         abortControllerRef, aborted, scenario >>
       ELSE UNCHANGED << image, loading, scans, viewportMeta, lastSignature, error,
                         scanProgress, hasCompletedInitialScan, isScanningRef,
                         abortControllerRef, aborted, locals, lastEmitted, runState, scenario >>

\* A faulty CooldownElapses: analyzeUIScreen does not test the signal before
\* the call.
CooldownElapses_Unchecked ==
  /\ pc = "cooldown"
  /\ UNCHANGED outside
  /\ pc' = "calling"
  /\ timer' = 0
  /\ calls' = << [after |-> timer, outcome |-> "pending"] >>
  /\ scanProgress' = [current |-> tile + 1, total |-> numTiles]
  /\ retryCount' = 0
  /\ UNCHANGED << image, loading, scans, viewportMeta, lastSignature, error,
                  hasCompletedInitialScan, isScanningRef, abortControllerRef,
                  aborted, tile, numTiles, fullHeight, loopSignature,
                  currentTotalScans, finalStatus, lastEmitted, runState, scenario >>

\* The cooldown before a tile is over: the tile is rendered and analyzeUIScreen
\* is called for it.
CooldownElapses ==
  /\ pc = "cooldown"
  /\ UNCHANGED outside
  /\ AttemptStarts(timer, <<>>)
  /\ IF aborted
       THEN UNCHANGED << image, scans, viewportMeta, lastSignature, hasCompletedInitialScan,
                         abortControllerRef, aborted, scenario >>
       ELSE /\ scanProgress' = [current |-> tile + 1, total |-> numTiles]
            /\ retryCount' = 0
            /\ UNCHANGED << image, loading, scans, viewportMeta, lastSignature, error,
                            hasCompletedInitialScan, isScanningRef, abortControllerRef,
                            aborted, tile, numTiles, fullHeight, loopSignature,
                            currentTotalScans, finalStatus, lastEmitted, runState, scenario >>

\* The pending call settles with resp and the attempt succeeds: analyzeUIScreen
\* returns the merged result, handleScan remaps and accumulates the findings,
\* emits, and goes on to the next tile.
MergeTile(resp) ==
  /\ pc = "calling"
  /\ UNCHANGED outside
  /\ ~AttemptThrows(loopSignature, resp)
  /\ LET result == ScanResponse(loopSignature, resp)
         total == currentTotalScans \o TileSpecificScans(result, tile, fullHeight)
         status == FoldStatus(finalStatus, result.viewport_meta.status)
         meta == [threat_count |-> Len(total), status |-> status]
         signature == Spread(loopSignature, result.thought_signature)
     IN /\ scans' = total
        /\ viewportMeta' = meta
        /\ lastSignature' = signature
        /\ IF tile + 1 >= numTiles
             THEN \* persistScanState, setHasCompletedInitialScan(true), finally
                  /\ hasCompletedInitialScan' = TRUE
                  /\ RunEnds("done")
                  /\ UNCHANGED error
             ELSE IF aborted
               THEN \* if (abortController.signal.aborted) throw new Error("AbortError")
                    /\ Cancelled(CancelledByLoop)
                    /\ UNCHANGED hasCompletedInitialScan
               ELSE \* await new Promise(r => setTimeout(r, TILE_COOLDOWN))
                    /\ tile' = tile + 1
                    /\ currentTotalScans' = total
                    /\ finalStatus' = status
                    /\ loopSignature' = signature
                    /\ scanProgress' =
                         [current |-> tile + 1,
                          total |-> IF scanProgress = Null THEN NoNum ELSE scanProgress.total]
                    /\ timer' = TILE_COOLDOWN
                    /\ pc' = "cooldown"
                    /\ calls' = Settle("ok")
                    /\ lastEmitted' = meta
                    /\ UNCHANGED << loading, error, hasCompletedInitialScan, isScanningRef,
                                    numTiles, fullHeight, retryCount, runState >>
  /\ UNCHANGED << image, abortControllerRef, aborted, scenario >>

Next ==
  \/ \E h \in AllowedHeights(scenario) : handleFile(h)
  \/ handleDiscard
  \/ handleClear
  \/ handleScan
  \/ \E resp \in AllowedResponses(scenario, tile) : RetryAfterFailure(resp)
  \/ \E resp \in AllowedResponses(scenario, tile) : DegradeAfterFailure(resp)
  \/ \E resp \in AllowedResponses(scenario, tile) : MergeTile(resp)
  \/ BackoffElapses
  \/ CooldownElapses

Spec == Init /\ [][Next]_vars

\* The end-to-end scenario of the specification: every scan is a two-tile scan
\* whose first tile reports sku1 at 10.00 and whose second reports it at 12.00.
InitE2E == InitWith("e2e")
SpecE2E == InitE2E /\ [][Next]_vars

\* The synthetic-finding scenario: the backend sees one item at two prices,
\* on display or not and with or without a position.
InitSynth == InitWith("synth")
SpecSynth == InitSynth /\ [][Next]_vars

\* The carry-over scenario: every scan is a two-tile scan in which the backend
\* sees sku1 on the first tile only.
InitCarry == InitWith("carry")
SpecCarry == InitCarry /\ [][Next]_vars

\* A step of the run itself: its pending backend call settles or one of its
\* timers fires.
RunStep ==
  \/ \E resp \in AllowedResponses(scenario, tile) : RetryAfterFailure(resp)
  \/ \E resp \in AllowedResponses(scenario, tile) : DegradeAfterFailure(resp)
  \/ \E resp \in AllowedResponses(scenario, tile) : MergeTile(resp)
  \/ BackoffElapses
  \/ CooldownElapses

\* The end-to-end scenario in which every backend call eventually returns or
\* fails and every timer eventually fires.
SpecE2ELive == InitE2E /\ [][Next]_vars /\ WF_vars(RunStep)

\* The tiling scenario: an image of any height up to MaxHeight has been loaded,
\* it is scanned once, nobody interferes and the backend has nothing to report,
\* so that the run renders every tile of the image.
InitTiles == \E h \in 1..MaxHeight : InitOn("tiles", h) /\ NoCall

NextTiles ==
  \/ handleScan
  \/ \E resp \in AllowedResponses(scenario, tile) : MergeTile(resp)
  \/ CooldownElapses

SpecTiles == InitTiles /\ [][NextTiles]_vars

\* The span scenario: the tiling scenario with a backend that reports on
\* every tile one finding whose box is the whole tile, so that the findings of
\* the run show where the run placed each tile.
InitSpans == \E h \in 1..MaxHeight : InitOn("spans", h) /\ NoCall
SpecSpans == InitSpans /\ [][NextTiles]_vars

\* The polling scenario: the image on display finishes loading in a step of
\* its own, so that handleScan can be called before it has, and a run that is
\* in flight beside the one the model follows takes its steps too.
InitPoll == InitWith("poll")

NextPoll ==
  \/ Next
  \/ ImageLoads
  \/ PollFires
  \/ Swap

SpecPoll == InitPoll /\ [][NextPoll]_vars

\* The matching scenario: the backend reports one item per tile, with or
\* without a name.
InitMatch == InitWith("match")
SpecMatch == InitMatch /\ [][Next]_vars

\* The schema scenario: the backend answers with or without the required
\* fields of the response.
InitSchema == InitWith("schema")
SpecSchema == InitSchema /\ [][Next]_vars

\* The coordinate scenario: the backend reports boxes that leave [0, 1000] or
\* are too short.
InitCoords == InitWith("coords")
SpecCoords == InitCoords /\ [][Next]_vars

\* ------------------------------------------------------------------ one function at a time

\* The rest of the state while a scenario applies one function.
Aside ==
  << image, loading, scans, viewportMeta, lastSignature, error, scanProgress,
     hasCompletedInitialScan, isScanningRef, abortControllerRef, aborted, pc, locals,
     timer, calls, lastEmitted, runState, scenario, complete, poll, other, current >>

\* Tile-local boxes: y components at the ends, inside and in either order.
LocalBoxes ==
  { <<y1, x[1], y2, x[2]>> : y1 \in {0, 100, 500, 1000}, y2 \in {0, 100, 500, 1000},
                             x \in {<<50, 150>>, <<0, 1000>>} }

\* A tile of height h at offsetY in an image of height fullHeight.
Geometries ==
  { g \in [h : {500, 1000, 1536}, offsetY : {0, 500, 1386}, fullHeight : {1000, 2000, 3000}] :
      g.offsetY + g.h <= g.fullHeight }

\* The remapping scenario: the remap of handleScan is applied to a box and a
\* tile geometry.
InitRemap ==
  /\ InitOn("remap", NoImage)
  /\ arg \in { [coordinates |-> b, h |-> g.h, offsetY |-> g.offsetY,
                fullHeight |-> g.fullHeight] : b \in LocalBoxes, g \in Geometries }
  /\ ret = Null

ApplyRemap ==
  /\ scenario = "remap"
  /\ ret = Null
  /\ ret' = Remap(arg.coordinates, arg.h, arg.offsetY, arg.fullHeight)
  /\ UNCHANGED << Aside, arg >>

SpecRemap == InitRemap /\ [][ApplyRemap]_vars

\* The digit groups of the numerals of the model.
Groups == { <<"1">>, <<"5", "6">>, <<"2", "3", "4">>, <<"5", "6", "7">> }

\* The groups of a numeral joined by its separators.
RECURSIVE Join(_, _)
Join(groups, seps) ==
  IF Len(groups) = 1 THEN groups[1]
  ELSE groups[1] \o <<seps[1]>> \o Join(Tail(groups), Tail(seps))

\* Numerals of up to MaxGroups groups of digits, separated by commas, by dots
\* or by both.
Numerals ==
  UNION { { Join(g, sp) : g \in [1..n -> Groups], sp \in [1..(n - 1) -> {",", "."}] } :
          n \in 1..MaxGroups }

\* The price strings of the model: a numeral, bare or after a dollar sign.
PriceStrings == Numerals \cup { <<"$">> \o v : v \in Numerals }

\* The price scenario: cleanPrice is applied to a price string.
InitPrice ==
  /\ InitOn("price", NoImage)
  /\ arg \in PriceStrings
  /\ ret = Null

ApplyPrice ==
  /\ scenario = "price"
  /\ ret = Null
  /\ ret' = cleanPrice(arg)
  /\ UNCHANGED << Aside, arg >>

SpecPrice == InitPrice /\ [][ApplyPrice]_vars

\* Findings as the threat aggregator receives them: every severity in
\* categories that do and do not contain one of the risk words.
GradedFindings ==
  { [RawScan(p, B1, "Low") EXCEPT !.severity = v] :
      p \in {"SCARCITY", "BAIT-AND-SWITCH", "SNEAK-IN", "HIDDEN_FEE", "Bait and Switch"},
      v \in {High, Medium, Low} }

\* The aggregator scenario: calculateSafetyMetrics is applied to a list of
\* findings.
InitMetrics ==
  /\ InitOn("metrics", NoImage)
  /\ arg \in SeqsUpTo(GradedFindings, MaxList)
  /\ ret = Null

ApplyMetrics ==
  /\ scenario = "metrics"
  /\ ret = Null
  /\ ret' = calculateSafetyMetrics(arg)
  /\ UNCHANGED << Aside, arg >>

SpecMetrics == InitMetrics /\ [][ApplyMetrics]_vars

\* ------------------------------------------------------------------ the catalog claims

\* The catalog of the session signature.
Catalog == lastSignature.catalog_anchors

\* The observations of a parsed response.
Batch(resp) == resp.thought_signature.catalog_anchors

\* The catalog a run holds when the k-th observation of a batch is merged.
Before(anchors, batch, k) == MergeAnchors(anchors, SubSeq(batch, 1, k - 1))

\* An observation matches an anchor by identifier, or by trimmed lower-case name.
Matches(anchor, obs) ==
  \/ anchor.id = obs.id
  \/ /\ anchor.name # NoStr
     /\ obs.name # NoStr
     /\ TrimLower(anchor.name) = TrimLower(obs.name)

\* The batches that differ from a batch only in the is_violation flags.
FlagVariants(batch) ==
  { [k \in 1..Len(batch) |-> [batch[k] EXCEPT !.is_violation = flags[k]]] :
      flags \in [1..Len(batch) -> BOOLEAN] }

\* C1 (as claimed): an anchor of the session catalog that is flagged as a
\* violation is still flagged after every later step that keeps it in the
\* catalog.
C1_FlagMonotonic ==
  [][\A k \in 1..Len(Catalog) :
       (Catalog[k].is_violation /\ k <= Len(lastSignature'.catalog_anchors))
         => lastSignature'.catalog_anchors[k].is_violation]_vars

C3_FlagNotTrusted ==
  pc = "calling" =>
    \A resp \in AllowedResponses(scenario, tile) :
      resp.kind = "parsed" =>
        /\ \A variant \in FlagVariants(Batch(resp)) :
             MergeAnchors(loopSignature.catalog_anchors, variant)
               = MergeAnchors(loopSignature.catalog_anchors, Batch(resp))
        /\ \A k \in 1..Len(Batch(resp)) :
             LET obs == Batch(resp)[k]
                 before == Before(loopSignature.catalog_anchors, Batch(resp), k)
                 idx == ExistingIdx(before.anchors, obs)
             IN (/\ before.ok
                 /\ idx > 0
                 /\ obs.numeric_price # NoNum
                 /\ before.anchors[idx].original_numeric_price # NoNum)
                => (MergeOne(before, obs).anchors[idx].is_violation
                      <=> Abs(obs.numeric_price
                                - before.anchors[idx].original_numeric_price) > PriceEps)

\* C3 witness: the observation at 10.01, which the backend reports as a
\* violation, has been merged into an anchor whose baseline is 10.00, and the
\* anchor is not flagged.
C3_Witness ==
  \E k \in 1..Len(Catalog) :
    /\ Catalog[k].numeric_price = 1001
    /\ Catalog[k].original_numeric_price = 1000
    /\ ~Catalog[k].is_violation

\* C4 (as claimed): the original numeric price of an anchor of the session
\* catalog has the same value after every later step that keeps the anchor in
\* the catalog.
C4_OriginalNeverChanges ==
  [][\A k \in 1..Len(Catalog) :
       k <= Len(lastSignature'.catalog_anchors)
         => lastSignature'.catalog_anchors[k].original_numeric_price
              = Catalog[k].original_numeric_price]_vars

\* C4 (amended): an anchor has no original numeric price only as long as no
\* sighting of it carried a numeric price; once it has one, the original
\* numeric price and the identifier of the anchor are the same after every
\* later step that keeps the anchor in the catalog.
C4_OriginalSetOnce ==
  /\ [](\A k \in 1..Len(Catalog) :
          Catalog[k].original_numeric_price = NoNum => Catalog[k].numeric_price = NoNum)
  /\ [][\A k \in 1..Len(Catalog) :
          (k <= Len(lastSignature'.catalog_anchors)
             /\ Catalog[k].original_numeric_price # NoNum)
            => /\ lastSignature'.catalog_anchors[k].original_numeric_price
                    = Catalog[k].original_numeric_price
               /\ lastSignature'.catalog_anchors[k].id = Catalog[k].id]_vars

\* C4 witness: an anchor first seen at 10.00 as sku1 has later been matched by
\* the name fallback at 12.00, in a scan that has ended, and keeps its baseline.
C4_Witness ==
  /\ runState = "done"
  /\ \E k \in 1..Len(Catalog) :
       /\ Catalog[k].id = "sku1"
       /\ Catalog[k].name = " PRO "
       /\ Catalog[k].original_numeric_price = 1000
       /\ Catalog[k].numeric_price = 1200

\* ------------------------------------------------------------------ the emission claims

\* A step in which handleScan emits the result of a tile.
Emission ==
  /\ pc = "calling"
  /\ \/ pc' = "cooldown"
     \/ runState' \in {"done", CancelledByLoop}

\* A step in which handleScan emits the result of the last tile.
FinalEmission == pc = "calling" /\ runState' = "done"

\* The synthetic findings of a list of findings.
Synthetic(list) == { k \in 1..Len(list) : list[k].action_fix = SyntheticFix }

\* C5 (as claimed): the Viewport Meta emitted after a tile is the result of
\* the Threat Aggregator on the cumulative list of findings emitted with it:
\* its count is the length of the list and its status the status of the list.
C5_MetaRecomputable ==
  [][Emission => viewportMeta' = calculateSafetyMetrics(scans')]_vars

\* C6 (as claimed): in the two-tile scan that sees sku1 at 10.00 and then at
\* 12.00, the status emitted with the last tile is Compromised.
C6_FinalStatusCompromised ==
  [][FinalEmission => viewportMeta'.status = Compromised]_vars

\* C7: in the two-tile scan that sees sku1 at 10.00 and then at 12.00, the
\* list of findings emitted with the last tile holds exactly one synthetic
\* finding, which is a High BAIT-AND-SWITCH finding that names the anchor.
C7_OneSyntheticFinding ==
  [][FinalEmission =>
       /\ Cardinality(Synthetic(scans')) = 1
       /\ \A k \in Synthetic(scans') :
            /\ scans'[k].pattern_type = "BAIT-AND-SWITCH"
            /\ scans'[k].severity = High
            /\ scans'[k].truth_label[1] = "Pro"
       /\ \A k \in 1..Len(scans') :
            scans'[k].pattern_type = "BAIT-AND-SWITCH" => k \in Synthetic(scans')]_vars

\* C7 witness: a two-tile scan is done and its list of findings holds the
\* synthetic finding next to a finding of the backend.
C7_Witness ==
  /\ scenario = "e2e"
  /\ runState = "done"
  /\ Len(scans) = 2
  /\ Cardinality(Synthetic(scans)) = 1

\* C8: the status emitted with a tile is at least the status emitted with the
\* tile before it in the same run, in the order Safe < Caution < Compromised.
C8_StatusNeverDowngrades ==
  [][(Emission /\ lastEmitted # Null)
       => Rank(viewportMeta'.status) >= Rank(lastEmitted.status)]_vars

\* C8 witness: a two-tile scan is done with status Compromised although its
\* only positioned finding is the SNEAK-IN finding of its first tile.
C8_Witness ==
  /\ runState = "done"
  /\ image # NoImage
  /\ NumTiles(image) = 2
  /\ viewportMeta # Null
  /\ viewportMeta.status = Compromised
  /\ Len(scans) = 1
  /\ scans[1].pattern_type = "SNEAK-IN"
  /\ scans[1].coordinates[1].d = image
  /\ scans[1].coordinates[1].n < 1000 * OffsetY(1)

\* ------------------------------------------------------------------ the retry claims

\* C9: the calls issued for one tile are at most three; every call after the
\* first follows a failed call, after a backoff of five seconds times the
\* number of failed calls; and no call follows a call that succeeded or is
\* still pending.
C9_RetryBudget ==
  /\ Len(calls) <= 3
  /\ \A k \in 1..Len(calls) :
       /\ k > 1 => /\ calls[k - 1].outcome = "failed"
                   /\ calls[k].after = (k - 1) * 5000
       /\ calls[k].outcome \in {"ok", "pending"} => k = Len(calls)
  /\ pc = "backoff" => /\ calls # << >>
                       /\ calls[Len(calls)].outcome = "failed"
                       /\ Len(calls) < 3

\* C9 witness: the third call for a tile is in flight, ten seconds after the
\* second one failed.
C9_Witness ==
  /\ pc = "calling"
  /\ Len(calls) = 3
  /\ calls[2].after = 5000
  /\ calls[3].after = 10000
  /\ calls[3].outcome = "pending"

\* C10: when the wait before an attempt is over and cancellation has been
\* requested, no call is issued, and the run ends as cancelled before the
\* attempt: it is not retried, not degraded, sets no error and emits nothing.
C10_CancelledBeforeAttempt ==
  [][(pc \in {"backoff", "cooldown"} /\ aborted /\ pc' # pc)
       => /\ runState' = CancelledByClient
          /\ pc' = "idle"
          /\ error' = NoError
          /\ ~loading'
          /\ UNCHANGED << scans, viewportMeta, lastSignature, hasCompletedInitialScan >>]_vars

\* C10 witness: a run has ended as cancelled before an attempt, without error.
C10_Witness ==
  /\ runState = CancelledByClient
  /\ pc = "idle"
  /\ error = NoError
  /\ aborted

\* ------------------------------------------------------------------ the degradation claims

\* A step in which the last attempt for a tile fails and the tile degrades:
\* the only step of a run that sets an error while a call is in flight.
Degrades == pc = "calling" /\ error' # error

C12_HaltKeepsPartialResults ==
  [][Degrades =>
       /\ pc' = "idle"
       /\ timer' = 0
       /\ runState' = "halted"
       /\ ~loading'
       /\ ~isScanningRef'
       /\ UNCHANGED << scans, viewportMeta, lastSignature >>
       /\ ~aborted => /\ scans' = currentTotalScans
                      /\ lastSignature' = loopSignature
                      /\ tile > 0 => /\ viewportMeta' # Null
                                     /\ viewportMeta'.threat_count = Len(currentTotalScans)
                                     /\ viewportMeta'.status = finalStatus]_vars

\* C12 witness: a scan has halted with the findings of its first tile on
\* display and no interference of the user interface.
C12_Witness ==
  /\ runState = "halted"
  /\ ~aborted
  /\ image # NoImage
  /\ viewportMeta # Null
  /\ Len(scans) > 0
  /\ viewportMeta.threat_count = Len(scans)
  /\ \E k \in 1..Len(scans) : scans[k].action_fix = SyntheticFix

\* C13 (as claimed): when a tile degrades, an error string is on display
\* together with a Viewport Meta whose status is at least Caution.
C13_DegradeSurfacesCaution ==
  [][Degrades =>
       /\ error' # NoError
       /\ viewportMeta' # Null
       /\ Rank(viewportMeta'.status) >= Rank(Caution)]_vars

\* ------------------------------------------------------------------ the cancellation claims

\* C14: once cancellation has been requested during the cooldown before a
\* tile, the request stands as long as the run waits, and the run issues no
\* call when it leaves the cooldown: it ends.
C14_NoCallAfterCancelledCooldown ==
  [][(pc = "cooldown" /\ aborted) =>
       /\ pc' \in {"cooldown", "idle"}
       /\ pc' = "cooldown" => (aborted' /\ calls' = calls /\ tile' = tile)
       /\ pc' = "idle" => (runState' = CancelledByClient /\ calls' = << >>)]_vars

\* C14 witness: cancellation has been requested during the cooldown between
\* the first and the second tile, after the call for the first tile succeeded.
C14_Witness ==
  /\ pc = "cooldown"
  /\ aborted
  /\ tile = 1
  /\ timer = TILE_COOLDOWN
  /\ Len(calls) = 1
  /\ calls[1].outcome = "ok"

\* A step in which a run ends as cancelled.
EndsCancelled ==
  runState = "running" /\ runState' \in {CancelledByLoop, CancelledByClient}

\* C15 (as claimed): when a run that has emitted the result of a tile ends as
\* cancelled, the list of findings on display still starts with the findings
\* the run had accumulated and a Viewport Meta is still on display.
C15_CancelKeepsPartialResults ==
  [][(EndsCancelled /\ tile > 0) =>
       /\ Len(scans') >= Len(currentTotalScans)
       /\ SubSeq(scans', 1, Len(currentTotalScans)) = currentTotalScans
       /\ viewportMeta' # Null
       /\ viewportMeta'.threat_count >= Len(currentTotalScans)]_vars

\* C16 (as claimed): a request for cancellation that arrives while the run
\* waits for a cooldown or a backoff ends the wait at once: after the step of
\* the request the run waits no longer and is cancelled.
C16_WaitsAreCancellable ==
  [][(pc \in {"backoff", "cooldown"} /\ ~aborted /\ aborted') =>
       /\ pc' = "idle"
       /\ runState' \in {CancelledByLoop, CancelledByClient}]_vars

\* ------------------------------------------------------------------ the sequencing claims

\* The calls of the history that have not settled.
PendingCalls == { k \in 1..Len(calls) : calls[k].outcome = "pending" }

\* C17: a run has a call in flight exactly while it is calling, and never more
\* than one; the tile index of a run moves only from i to i + 1, in the step
\* that merges the response for tile i; and the signature a call for a tile is
\* given is the one the merge of the tile before it produced, through the
\* cooldown and through every retry.
C17_StrictlySequential ==
  /\ [](/\ Cardinality(PendingCalls) = (IF pc = "calling" THEN 1 ELSE 0)
        /\ pc # "idle" => tile < numTiles)
  /\ [][/\ tile' \in {tile, tile + 1, 0}
        /\ tile' = tile + 1 =>
             /\ pc = "calling"
             /\ pc' = "cooldown"
             /\ \E resp \in AllowedResponses(scenario, tile) :
                  /\ ~AttemptThrows(loopSignature, resp)
                  /\ loopSignature' = ScanResponse(loopSignature, resp).thought_signature
                  /\ loopSignature'.catalog_anchors =
                       MergeAnchors(loopSignature.catalog_anchors, Batch(resp)).anchors
        /\ (tile' = 0 /\ tile > 0) => pc' = "idle"
        /\ (pc' = "calling" /\ pc \in {"cooldown", "backoff", "calling"})
             => UNCHANGED << tile, loopSignature, currentTotalScans >>
        /\ (pc = "cooldown" /\ pc' = "calling") => calls' = << [after |-> TILE_COOLDOWN, outcome |-> "pending"] >>
        /\ (pc = "calling" /\ pc' = "backoff") => UNCHANGED << tile, loopSignature >>]_vars

\* C17 witness: the call for the second tile is in flight with a signature
\* that holds an anchor merged from the response for the first tile.
C17_Witness ==
  /\ pc = "calling"
  /\ tile = 1
  /\ Cardinality(PendingCalls) = 1
  /\ Len(loopSignature.catalog_anchors) = 2
  /\ loopSignature = lastSignature
  /\ ~aborted

\* C19: handleClear leaves the Session Signature empty, and while the run that
\* was in flight at the reset is still ending (no image has been chosen since,
\* so no scan has been started since) the signature stays empty.
C19_ClearStaysCleared ==
  [][/\ (image = NoImage /\ pc # "idle") => lastSignature' = EmptySignature
     /\ (image' = NoImage /\ lastSignature' # lastSignature) => lastSignature' = EmptySignature]_vars

\* ------------------------------------------------------------------ the partitioner claim

\* The rows [offsetY, offsetY + currentTileHeight) of a tile.
Span(i) == OffsetY(i) .. (OffsetY(i) + TileHeight(i, fullHeight) - 1)

\* The first row after a tile.
SpanEnd(i) == OffsetY(i) + TileHeight(i, fullHeight)

\* C20: while the run is at a tile, the tiles rendered so far cover the rows
\* from 0 to the end of the tile without a gap, no tile is empty or reaches
\* past the image, and the last tile of the run ends at the height of the
\* image, so that the tiles of a run cover exactly the rows [0, H).
C20_TilesCoverImage ==
  pc = "calling" =>
    /\ tile < numTiles
    /\ OffsetY(0) = 0
    /\ \A i \in 0..tile :
         /\ TileHeight(i, fullHeight) >= 1
         /\ SpanEnd(i) <= fullHeight
         /\ i > 0 => OffsetY(i) <= SpanEnd(i - 1)
    /\ UNION { Span(i) : i \in 0..tile } = 0 .. (SpanEnd(tile) - 1)
    /\ tile = numTiles - 1 => UNION { Span(i) : i \in 0..tile } = 0 .. (fullHeight - 1)

\* C20 witness: the last tile of the shortest three-tile image is at the
\* backend; it is one row taller than the overlap.
C20_Witness ==
  /\ pc = "calling"
  /\ numTiles = 3
  /\ tile = 2
  /\ TileHeight(tile, fullHeight) = overlap + 1
  /\ scanProgress = [current |-> 3, total |-> 3]

\* ------------------------------------------------------------------ the one-run claim

\* A run ends while the other run, which started after it, is in flight.
OlderRunEnds ==
  /\ pc # "idle"
  /\ pc' = "idle"
  /\ other # Null
  /\ other' = other
  /\ current = "other"

\* Two runs of handleScan are never in flight together.
C18_NeverTwoRuns == ~(pc # "idle" /\ other # Null)

\* A run starts beside a run in flight only after the cancellation of that run
\* has been requested.
C18_StartsAfterCancellation == [][(other = Null /\ other' # Null) => aborted]_vars

\* The end of the older of two runs leaves loading and isScanningRef, which
\* are the newer run's by then, as they are.
C18_FlagsSurviveOlderRun == [][OlderRunEnds => UNCHANGED << loading, isScanningRef >>]_vars

\* C18: two runs of handleScan are never in flight together, under any
\* interleaving of the handlers with a run in flight: a new run starts only
\* after the cancellation of the run in flight has been requested, and the end
\* of an older run never resets the in-progress flags of a newer one.
C18_OneRunAtATime ==
  /\ []C18_NeverTwoRuns
  /\ C18_StartsAfterCancellation
  /\ C18_FlagsSurviveOlderRun

\* ------------------------------------------------------------------ the coordinate claims

\* The fraction n / d is an integer.
IsInteger(q) == q.n % q.d = 0

\* The fraction n / d lies in [0, 1000].
InUnitRange(q) == 0 <= q.n /\ q.n <= 1000 * q.d

\* C21: every finding of the emitted list has a box of four integers, each in
\* [0, 1000].
C21_EmittedBoxesAreIntegers ==
  \A k \in 1..Len(scans) :
    /\ Len(scans[k].coordinates) = 4
    /\ \A c \in 1..4 : /\ IsInteger(scans[k].coordinates[c])
                       /\ InUnitRange(scans[k].coordinates[c])

\* The arguments of the worked example: local y = 1000 in a tile of height
\* 1000 at offset 500 of an image of height 2000.
RemapExample ==
  /\ arg # Null
  /\ ret # Null
  /\ arg.h = 1000
  /\ arg.offsetY = 500
  /\ arg.fullHeight = 2000

\* C22, as stated: in the worked example local y = 1000 maps to global
\* y = 1000.
C22_RemapExample ==
  RemapExample =>
    \A k \in {1, 3} : arg.coordinates[k] = 1000 => ret[k].n = 1000 * ret[k].d

\* C22, amended: in the worked example local y = 1000 maps to global
\* y = ((1000 / 1000 * 1000) + 500) / 2000 * 1000 = 750, the lower end of the
\* tile in the image.
C22_RemapExample750 ==
  RemapExample =>
    \A k \in {1, 3} : arg.coordinates[k] = 1000 => ret[k].n = 750 * ret[k].d

\* C22 witness: the worked example has been remapped, with y_max = 1000.
C22_Witness ==
  /\ RemapExample
  /\ arg.coordinates = <<0, 0, 1000, 1000>>
  /\ ret[3] = [n |-> 1500000, d |-> 2000]

\* ------------------------------------------------------------------ the threat aggregator claim

\* How many findings of a list have a severity.
CountOf(list, v) == Cardinality({ k \in 1..Len(list) : list[k].severity = v })

\* Some finding's category contains one of the risk words.
NamesRisk(list) ==
  \E k \in 1..Len(list) :
    \E w \in {"SWITCH", "BAIT", "SNEAK", "HIDDEN_FEE"} : Includes(list[k].pattern_type, w)

\* C23: for any list of findings, with score = 10 * #High + 3 * #Medium +
\* 1 * #Low, the aggregator returns Compromised if score >= 15 or a category
\* contains SWITCH, BAIT, SNEAK or HIDDEN_FEE, Caution if score > 0 and not
\* Compromised, Safe otherwise; and it counts the findings.
C23_ThreatAggregator ==
  (scenario = "metrics" /\ ret # Null) =>
    LET score == 10 * CountOf(arg, High) + 3 * CountOf(arg, Medium) + CountOf(arg, Low)
    IN /\ ret.threat_count = Len(arg)
       /\ ret.status = IF score >= 15 \/ NamesRisk(arg) THEN Compromised
                       ELSE IF score > 0 THEN Caution
                       ELSE Safe
       /\ (Len(arg) = 1 /\ arg[1].severity = High /\ ~NamesRisk(arg)) => ret.status = Caution
       /\ (Len(arg) = 1 /\ arg[1].severity = High /\ NamesRisk(arg)) => ret.status = Compromised

\* C23 witness: three Medium findings in categories without a risk word give
\* Caution.
C23_Witness ==
  /\ scenario = "metrics"
  /\ ret # Null
  /\ Len(arg) = 3
  /\ \A k \in 1..3 : arg[k].severity = Medium /\ ~NamesRisk(<<arg[k]>>)
  /\ arg[1].pattern_type = "Bait and Switch"
  /\ ret = [threat_count |-> 3, status |-> Caution]

\* ------------------------------------------------------------------ the matching claims

\* The anchor an observation is to match: the first with its identifier, else,
\* when it carries a name, the first with its name after trim and lower-case;
\* 0 when there is none.
ExpectedMatch(anchors, obs) ==
  LET byId == { j \in 1..Len(anchors) : anchors[j].id = obs.id }
      byName == { j \in 1..Len(anchors) :
                    /\ Truthy(obs.name)
                    /\ anchors[j].name # NoStr
                    /\ TrimLower(anchors[j].name) = TrimLower(obs.name) }
  IN IF byId # {} THEN Min(byId)
     ELSE IF byName # {} THEN Min(byName)
     ELSE 0

\* C24: whenever a backend response is merged, each observation is merged into
\* the anchor it is to match, which keeps its identifier and its original price
\* fields and takes price, numeric price, visibility and coordinates from the
\* observation, and the other anchors stay as they were.
C24_MatchingRule ==
  pc = "calling" =>
    \A resp \in AllowedResponses(scenario, tile) :
      resp.kind = "parsed" =>
        \A k \in 1..Len(Batch(resp)) :
          LET obs == Batch(resp)[k]
              before == Before(loopSignature.catalog_anchors, Batch(resp), k)
              after == MergeOne(before, obs)
              m == ExpectedMatch(before.anchors, obs)
          IN (before.ok /\ m > 0) =>
               /\ after.ok
               /\ Len(after.anchors) = Len(before.anchors)
               /\ \A j \in 1..Len(before.anchors) :
                    j # m => after.anchors[j] = before.anchors[j]
               /\ after.anchors[m].id = before.anchors[m].id
               /\ after.anchors[m].original_price = before.anchors[m].original_price
               /\ after.anchors[m].original_numeric_price
                    = before.anchors[m].original_numeric_price
               /\ after.anchors[m].price = obs.price
               /\ after.anchors[m].numeric_price = obs.numeric_price
               /\ after.anchors[m].is_currently_visible = obs.is_currently_visible
               /\ after.anchors[m].coordinates = obs.coordinates

\* Whether an observation lacks its identifier or its name.
Malformed(obs) == obs.id = NoStr \/ obs.name = NoStr

\* C25: in a session in which an observation without identifier or name has
\* come in, with the batch that is merged or earlier, the merge of a parsed
\* response completes: it does not raise, and the attempt is not a failed one.
C25_MalformedNotFatal ==
  pc = "calling" =>
    \A resp \in AllowedResponses(scenario, tile) :
      (/\ resp.kind = "parsed"
       /\ \/ \E k \in 1..Len(Batch(resp)) : Malformed(Batch(resp)[k])
          \/ \E j \in 1..Len(loopSignature.catalog_anchors) :
               Malformed(loopSignature.catalog_anchors[j]))
        => /\ MergeAnchors(loopSignature.catalog_anchors, Batch(resp)).ok
           /\ ~AttemptThrows(loopSignature, resp)

\* ------------------------------------------------------------------ the schema claim

\* A parsed response lacks a required field: the findings list, the reasoning
\* object, or in it the reasoning trace, the security brief or the anchor list.
LacksRequired(resp) ==
  \/ ~Has(resp, "scans")
  \/ ~Has(resp, "thought_signature")
  \/ /\ Has(resp, "thought_signature")
     /\ \/ ~Has(resp.thought_signature, "reasoning_path")
        \/ ~Has(resp.thought_signature, "security_brief")
        \/ ~Has(resp.thought_signature, "catalog_anchors")

\* C26: a parsed response that lacks a required field makes the attempt fail,
\* whatever the pending call of the run returns.
C26_SchemaEnforced ==
  pc = "calling" =>
    \A resp \in AllowedResponses(scenario, tile) :
      (resp.kind = "parsed" /\ LacksRequired(resp)) => AttemptThrows(loopSignature, resp)

\* ------------------------------------------------------------------ the clamping claim

\* A box of four integers in [0, 1000].
IsClampedBox(coords) ==
  /\ Len(coords) = 4
  /\ \A c \in 1..4 : coords[c] \in 0..1000

\* C27: whatever parsed response the pending call returns, if the attempt
\* succeeds then every box of the result, in its findings and in the catalog
\* anchors of its signature, is a box of four integers in [0, 1000].
C27_ResultIsClamped ==
  pc = "calling" =>
    \A resp \in AllowedResponses(scenario, tile) :
      ~AttemptThrows(loopSignature, resp) =>
        LET result == ScanResponse(loopSignature, resp)
        IN /\ \A k \in 1..Len(result.scans) : IsClampedBox(result.scans[k].coordinates)
           /\ \A k \in 1..Len(result.thought_signature.catalog_anchors) :
                IsClampedBox(result.thought_signature.catalog_anchors[k].coordinates)

\* The findings of a result alone are clamped.
C27_FindingsAreClamped ==
  pc = "calling" =>
    \A resp \in AllowedResponses(scenario, tile) :
      ~AttemptThrows(loopSignature, resp) =>
        \A k \in 1..Len(ScanResponse(loopSignature, resp).scans) :
          IsClampedBox(ScanResponse(loopSignature, resp).scans[k].coordinates)

\* ------------------------------------------------------------------ the partitioner claims

\* The least n with n * b >= a, for a >= 0 and b > 0.
CeilDiv(a, b) == CHOOSE n \in 0..a : n * b >= a /\ (n - 1) * b < a

\* The tile count the specification gives for an image of height H.
SpecTileCount(H) ==
  IF H <= 1536 THEN 1 ELSE CeilDiv(H - 150, 1536 - 150)

\* The offset and the height the specification gives for tile i of an image
\* of height H.
SpecOffset(i) == i * (1536 - 150)
SpecHeight(i, H) ==
  IF H - SpecOffset(i) < 1536 THEN H - SpecOffset(i) ELSE 1536

\* The first and the one-past-last row of the tile that the k-th finding of
\* the span scenario fills, read back from its remapped box: a global y of
\* n / d per mille of an image of d rows is row n / 1000.
TopRow(k) == scans[k].coordinates[1].n \div 1000
EndRow(k) == scans[k].coordinates[3].n \div 1000

\* The k-th finding of the span scenario is exact: its y coordinates are whole
\* rows of the image on display.
ExactSpan(k) ==
  /\ scans[k].coordinates[1].d = image
  /\ scans[k].coordinates[3].d = image
  /\ scans[k].coordinates[1].n % 1000 = 0
  /\ scans[k].coordinates[3].n % 1000 = 0

\* C28: the run counts 1 tile for an image of height H <= 1536 and
\* ceil((H - 150) / 1386) tiles otherwise; tile i is placed at offset
\* i * 1386 with height min(1536, H - i * 1386), and that height is strictly
\* positive for every tile of the run, the one at the backend included.
C28_Partitioner ==
  /\ pc = "calling" =>
        /\ numTiles = SpecTileCount(image)
        /\ scanProgress.total = SpecTileCount(image)
        /\ tile < SpecTileCount(image)
        /\ Len(scans) = tile
        /\ SpecHeight(tile, image) > 0
  /\ Len(scans) <= SpecTileCount(image)
  /\ \A k \in 1..Len(scans) :
        /\ ExactSpan(k)
        /\ TopRow(k) = SpecOffset(k - 1)
        /\ EndRow(k) - TopRow(k) = SpecHeight(k - 1, image)
        /\ SpecHeight(k - 1, image) > 0

\* C28 witness: a three-tile image has been scanned to its end, and its third
\* tile was placed at row 2772.
C28_Witness ==
  /\ pc = "idle"
  /\ hasCompletedInitialScan
  /\ Len(scans) = 3
  /\ TopRow(3) = 2772
  /\ EndRow(3) = image

\* C29: in an image taller than 1536 rows, every tile that has a successor
\* is exactly 1536 rows tall and shares exactly 150 rows with its successor;
\* the last tile of a finished run is at most 1536 rows tall and still taller
\* than 150 rows.
C29_OverlapInvariant ==
  image # NoImage /\ image > 1536 =>
    /\ \A k \in 1..Len(scans) :
          /\ ExactSpan(k)
          /\ k < SpecTileCount(image) => EndRow(k) - TopRow(k) = 1536
          /\ k < Len(scans) => EndRow(k) - TopRow(k + 1) = 150
    /\ Len(scans) = SpecTileCount(image) =>
          /\ EndRow(Len(scans)) - TopRow(Len(scans)) <= 1536
          /\ EndRow(Len(scans)) - TopRow(Len(scans)) > 150

\* C29 witness: a finished run over the shortest three-tile image, whose last
\* tile is 151 rows tall and whose second tile shares 150 rows with it.
C29_Witness ==
  /\ pc = "idle"
  /\ Len(scans) = 3
  /\ image = 2923
  /\ EndRow(3) - TopRow(3) = 151
  /\ EndRow(2) - TopRow(3) = 150

\* ------------------------------------------------------------------ the remapper claim

\* The fraction q is ((local / 1000 * h) + offset) / H * 1000 for the tile
\* geometry of the call, that is (local * h + 1000 * offset) over H.
IsGlobalOf(q, local) ==
  /\ q.d = arg.fullHeight
  /\ q.d > 0
  /\ q.n = local * arg.h + 1000 * arg.offsetY

\* C30: the remapper maps [y_min, x_min, y_max, x_max] to four components, the
\* y components by ((y / 1000 * h) + offset) / H * 1000 and the x components
\* unchanged, and a box with y_min <= y_max keeps that order.
C30_Remapper ==
  ret # Null =>
    /\ Len(ret) = 4
    /\ IsGlobalOf(ret[1], arg.coordinates[1])
    /\ IsGlobalOf(ret[3], arg.coordinates[3])
    /\ ret[2] = [n |-> arg.coordinates[2], d |-> 1]
    /\ ret[4] = [n |-> arg.coordinates[4], d |-> 1]
    /\ arg.coordinates[1] <= arg.coordinates[3] =>
          ret[1].d = ret[3].d /\ ret[1].n <= ret[3].n

\* C30 witness: a box from y = 100 to y = 500 in a tile of 1536 rows at offset
\* 1386 of an image of 3000 rows has been remapped, to y = 513.2 and 718.
C30_Witness ==
  /\ ret # Null
  /\ arg.coordinates = <<100, 50, 500, 150>>
  /\ arg.h = 1536
  /\ arg.offsetY = 1386
  /\ arg.fullHeight = 3000
  /\ ret[1].n * 10 = 5132 * ret[1].d
  /\ ret[3].n = 718 * ret[3].d
  /\ ret[2].n = 50

\* ------------------------------------------------------------------ the synthetic-finding claims

\* The findings that the step appends to the running list of the run.
Appended == SubSeq(scans', Len(currentTotalScans) + 1, Len(scans'))

\* An anchor is marked violated, is on display and has a box that is not all
\* zeros.
Flagged(a) ==
  /\ a.is_violation
  /\ a.is_currently_visible
  /\ \E j \in 1..Len(a.coordinates) : a.coordinates[j] # 0

\* C31: the findings appended with a tile begin with one synthetic finding
\* for each anchor of the merged catalog that is marked violated, on display
\* and has a box that is not all zeros, in the order of the catalog; each is a
\* High BAIT-AND-SWITCH finding that names its anchor and tells the user to
\* re-verify the total, and the tile appends no other synthetic finding.
C31_SyntheticFindings ==
  [][Emission =>
       LET hit == SelectSeq(lastSignature'.catalog_anchors, Flagged)
       IN /\ Synthetic(Appended) = 1..Len(hit)
          /\ \A k \in 1..Len(hit) :
               /\ Appended[k].pattern_type = "BAIT-AND-SWITCH"
               /\ Appended[k].severity = High
               /\ Appended[k].truth_label[1] = hit[k].name]_vars

\* C31 witness: the catalog holds a violated anchor that is not on display,
\* after a tile that appended a finding of the backend and no synthetic one.
C31_Witness ==
  /\ scenario = "synth"
  /\ pc = "cooldown"
  /\ Len(scans) = 1
  /\ Synthetic(scans) = {}
  /\ Len(lastSignature.catalog_anchors) = 1
  /\ lastSignature.catalog_anchors[1].is_violation
  /\ ~lastSignature.catalog_anchors[1].is_currently_visible
  /\ lastSignature.catalog_anchors[1].coordinates = WholeTile

\* C32 (as claimed): the list of findings on display never holds a finding
\* whose four coordinates are all zero.
C32_NoZeroBoxEmitted ==
  \A k \in 1..Len(scans) :
    \E j \in 1..4 : scans[k].coordinates[j].n # 0

\* ------------------------------------------------------------------ the price normalizer claim

\* The numeral of a price string of the model.
NumeralOf(val) == IF val[1] = "$" THEN Tail(val) ELSE val

\* The digits of a numeral.
DigitsOf(numeral) ==
  LET digit(x) == x \in DigitChars
  IN SelectSeq(numeral, digit)

\* The numeral holds the separator sep and not the separator absent.
Only(numeral, sep, absent) ==
  /\ LastIndexOf(numeral, sep) # 0
  /\ LastIndexOf(numeral, absent) = 0

\* The separator rule for a numeral with one kind of separator: with exactly
\* two digits after the last separator and no separator before it, the
\* separator is the decimal point; with another number of digits after the
\* last separator, every separator is removed.
SeparatorRule(numeral, sep, result) ==
  LET last == LastIndexOf(numeral, sep)
      several == \E k \in 1..(last - 1) : numeral[k] = sep
  IN IF Len(numeral) - last = 2
       THEN several \/ result = [int |-> SubSeq(numeral, 1, last - 1),
                                  frac |-> SubSeq(numeral, last + 1, Len(numeral))]
       ELSE result = [int |-> DigitsOf(numeral), frac |-> <<>>]

\* C33 (as claimed): a numeral with commas and no dot, or with dots and no
\* comma, is normalized by the separator rule; 1,234,567 becomes 1234567.
C33_SeparatorRule ==
  ret # Null /\ scenario = "price" =>
    /\ Only(NumeralOf(arg), ",", ".") => SeparatorRule(NumeralOf(arg), ",", ret)
    /\ Only(NumeralOf(arg), ".", ",") => SeparatorRule(NumeralOf(arg), ".", ret)

\* The separator rule holds of numerals with dots only.
C33_DotRule ==
  ret # Null /\ scenario = "price" =>
    (Only(NumeralOf(arg), ".", ",") => SeparatorRule(NumeralOf(arg), ".", ret))

\* The separator rule holds of numerals with exactly one comma and no dot.
C33_OneCommaRule ==
  ret # Null /\ scenario = "price" =>
    (/\ Only(NumeralOf(arg), ",", ".")
     /\ Cardinality({k \in 1..Len(arg) : arg[k] = ","}) = 1
     => SeparatorRule(NumeralOf(arg), ",", ret))

\* ------------------------------------------------------------------ the cancelled-run claim

\* A step of the run whose cancellation has been requested: its pending
\* backend call settles.
CancelledCallSettles == aborted /\ pc = "calling" /\ pc' # "calling"

\* C34 (as claimed): once the cancellation of a run has been requested, the
\* run leaves the list of findings, the Viewport Meta and the Session
\* Signature as they are, also when its pending backend call answers.
C34_NoEmissionAfterCancel ==
  [][CancelledCallSettles => UNCHANGED << scans, viewportMeta, lastSignature >>]_vars

\* ------------------------------------------------------------------ the carry-over claim

\* C35 (as claimed): a tile on which the backend observes no item appends no
\* synthetic finding, whatever the catalog holds from earlier tiles and scans.
C35_NoCarriedOverFinding ==
  [][Emission /\ scenario = "carry" /\ tile > 0 => Synthetic(Appended) = {}]_vars

\* ------------------------------------------------------------------ the termination claim

\* The run has ended as Done, Cancelled or Halted and the in-progress state is
\* reset.
Terminated ==
  /\ pc = "idle"
  /\ runState \in {"done", "halted", CancelledByLoop, CancelledByClient}
  /\ ~loading
  /\ ~isScanningRef
  /\ scanProgress = Null

\* C36: if every backend call eventually settles and every timer eventually
\* fires, a run that has been started eventually ends as Done, Cancelled or
\* Halted with loading, isScanningRef and the scan progress reset.
C36_RunTerminates == (pc # "idle") ~> Terminated

\* C36 witness: a run has halted after its first tile, with the findings of
\* that tile on display and the in-progress state reset.
C36_Witness ==
  /\ Terminated
  /\ runState = "halted"
  /\ Len(scans) >= 1
  /\ error # NoError

\* ------------------------------------------------------------------ the identifier claim

\* The anchors of a catalog have pairwise distinct identifiers.
DistinctIds(anchors) ==
  \A j, k \in 1..Len(anchors) : anchors[j].id = anchors[k].id => j = k

\* Every anchor of the catalog before is in the catalog after, under the same
\* identifier at the same position.
Extends(after, before) ==
  /\ Len(after) >= Len(before)
  /\ \A k \in 1..Len(before) : after[k].id = before[k].id

\* C37: the catalog of the session and the catalog of the run never hold two
\* anchors with one identifier, and the catalog that a tile's merge leaves
\* holds every anchor of the catalog the merge started from, under the same
\* identifier at the same position, so that it is at least as long.
C37_IdentifiersStayUnique ==
  /\ [](DistinctIds(Catalog) /\ DistinctIds(loopSignature.catalog_anchors))
  /\ [][Emission =>
          Extends(lastSignature'.catalog_anchors, loopSignature.catalog_anchors)]_vars

\* C37 witness: the catalog holds two anchors, and the first was matched by
\* name by an observation with another identifier and kept its own.
C37_Witness ==
  /\ Len(Catalog) = 2
  /\ Catalog[1].id = "sku1"
  /\ Catalog[1].name = " PRO "
  /\ Catalog[2].id = "sku3"

====
